---- MODULE Spec2Model ----
(***************************************************************************)
(* Virtual Planner: the access gate (tenant lookup, kill switch, token,    *)
(* activation window), the operator toggle of the process-wide             *)
(* runtime-access flag, and the request routes that reach the generation   *)
(* collaborator (/api/respond behind the gate, /api/chat of server.js).    *)
(*                                                                         *)
(* JavaScript values are modelled as sequences of strings: a string is the *)
(* sequence of its characters, and undefined, null, true, false and the    *)
(* number 0 are one-element sequences holding a reserved word.             *)
(***************************************************************************)
EXTENDS Integers, Sequences, FiniteSets, TLC

VARIABLES
    cities,                 \* tenant configuration, read once at start
    ADMIN_KEY,              \* operator credential, read once at start
    runtimeAccessEnabled,   \* the process-wide kill switch
    respond,                \* the /api/respond request in flight
    toggle,                 \* the /admin/toggle request in flight
    chat,                   \* the /api/chat request in flight
    ev                      \* what the last handler run read and answered

vars == <<cities, ADMIN_KEY, runtimeAccessEnabled, respond, toggle, chat, ev>>

----------------------------------------------------------------------------
(* Bounds of the model *)

\* the clock runs over 0..MaxTime
MaxTime == 3

Times == 0..MaxTime

----------------------------------------------------------------------------
(* JavaScript values *)

Undefined == <<"undefined">>
Null      == <<"null">>
JsTrue    == <<"true">>
JsFalse   == <<"false">>
Zero      == <<"#0">>
Empty     == <<>>

\* ToBoolean of the language: false, undefined, null, 0 and "" are falsy
Truthy(v) == v \notin {JsFalse, Undefined, Null, Zero, Empty}

\* the value as it is, not made a boolean
ToBoolean_raw(v) == v

\* !!v
ToBoolean(v) == IF Truthy(v) THEN JsTrue ELSE JsFalse

\* a || b
Or(a, b) == IF Truthy(a) THEN a ELSE b

\* a ?? b
Coalesce(a, b) == IF a \in {Undefined, Null} THEN b ELSE a

UpperChars == <<"A","B","C","D","E","F","G","H","I","J","K","L","M",
                "N","O","P","Q","R","S","T","U","V","W","X","Y","Z">>
LowerChars == <<"a","b","c","d","e","f","g","h","i","j","k","l","m",
                "n","o","p","q","r","s","t","u","v","w","x","y","z">>

LowerChar(c) ==
    IF \E i \in 1..Len(UpperChars) : UpperChars[i] = c
    THEN LowerChars[CHOOSE i \in 1..Len(UpperChars) : UpperChars[i] = c]
    ELSE c

\* String.prototype.toLowerCase
toLowerCase(s) == [i \in 1..Len(s) |-> LowerChar(s[i])]

\* the white space trim removes and the pattern class \s holds
WhiteSpace == {" ", "\t", "\n", "\r"}

RECURSIVE trimStart(_)
trimStart(s) ==
    IF s # <<>> /\ Head(s) \in WhiteSpace THEN trimStart(Tail(s)) ELSE s

RECURSIVE trimEnd(_)
trimEnd(s) ==
    IF s # <<>> /\ s[Len(s)] \in WhiteSpace
    THEN trimEnd(SubSeq(s, 1, Len(s) - 1))
    ELSE s

\* String.prototype.trim
trim(s) == trimEnd(trimStart(s))

Digits == <<"0","1","2","3","4","5","6","7","8","9">>

IsDigit(c) == \E i \in 1..10 : Digits[i] = c

DigitVal(c) == (CHOOSE i \in 1..10 : Digits[i] = c) - 1

NaN == -1

RECURSIVE ParseNat(_, _)
ParseNat(s, acc) ==
    IF s = <<>> THEN acc ELSE ParseNat(Tail(s), 10 * acc + DigitVal(Head(s)))

\* new Date(iso).valueOf(): the instant the text names, NaN for text that is no date
DateValue(iso) ==
    IF iso # <<>> /\ \A i \in 1..Len(iso) : IsDigit(iso[i])
    THEN ParseNat(iso, 0)
    ELSE NaN

----------------------------------------------------------------------------
(* Configuration read at start *)

S_ab    == <<"a","b">>
S_nw    == <<"n","w">>
S_et    == <<"e","t">>
S_hw    == <<"h","w">>
S_Cd    == <<"C","d">>
S_tk    == <<"t","k">>
S_Pat   == <<"P","a","t">>
S_Eve   == <<"E","v","e">>
S_Cy    == <<"C","y">>
S_K1    == <<"K","1">>
S_K2    == <<"K","2">>
S_d1    == <<"1">>
S_d2    == <<"2">>
S_admin == <<"k","e","y">>
S_constructor == <<"c","o","n","s","t","r","u","c","t","o","r">>
SeniorPlanner == <<"S","e","n","i","o","r"," ","P","l","a","n","n","e","r">>

\* cities.json: "ab" has a token, a window and a persona; "nw" has no window and
\* no persona; "hw" has a start without an end; "et" has an empty token; "Cd" is
\* a key written with a capital, as the city names of the other routes are
CitiesJson ==
    (S_ab :> [found |-> TRUE, token |-> S_tk, start |-> S_d1, end |-> S_d2,
              planner |-> S_Pat, envKey |-> S_K1])
 @@ (S_nw :> [found |-> TRUE, token |-> S_tk, start |-> Undefined, end |-> Undefined,
              planner |-> Undefined, envKey |-> Undefined])
 @@ (S_hw :> [found |-> TRUE, token |-> S_tk, start |-> S_d2, end |-> Undefined,
              planner |-> S_Eve, envKey |-> S_K2])
 @@ (S_et :> [found |-> TRUE, token |-> Empty, start |-> Undefined, end |-> Undefined,
              planner |-> S_Eve, envKey |-> S_K2])
 @@ (S_Cd :> [found |-> TRUE, token |-> S_tk, start |-> Undefined, end |-> Undefined,
              planner |-> S_Cy, envKey |-> S_K1])

\* process.env: the names that hold a value
ProcessEnv == {S_K1}

\* what a lookup gives when there is no such property
NoConfig ==
    [found |-> FALSE, token |-> Undefined, start |-> Undefined, end |-> Undefined,
     planner |-> Undefined, envKey |-> Undefined]

\* a property every object inherits (Object.prototype.constructor): a function,
\* which is truthy and has none of the tenant fields
InheritedKeys == {S_constructor}

InheritedValue ==
    [found |-> TRUE, token |-> Undefined, start |-> Undefined, end |-> Undefined,
     planner |-> Undefined, envKey |-> Undefined]

\* the values of ACCESS_ENABLED and ADMIN_KEY the process may be started with
AccessEnabledEnv ==
    {Undefined, <<"f","a","l","s","e">>, <<"F","a","l","s","e">>,
     <<"t","r","u","e">>, <<"0">>}

AdminKeyEnv == {Undefined, S_admin}

\* String(process.env.ACCESS_ENABLED ?? "true").toLowerCase() !== "false"
InitialAccess(envValue) ==
    IF toLowerCase(Coalesce(envValue, <<"t","r","u","e">>)) # <<"f","a","l","s","e">>
    THEN JsTrue ELSE JsFalse

----------------------------------------------------------------------------
(* The gate *)

\* cities[city] || null
getCityConfig(city) ==
    IF city \in DOMAIN cities THEN cities[city]
    ELSE IF city \in InheritedKeys THEN InheritedValue
    ELSE NoConfig

\* a >= b and a <= b on dates: false when either is no date
DateGeq(a, b) == a # NaN /\ b # NaN /\ a >= b
DateLeq(a, b) == a # NaN /\ b # NaN /\ a <= b

\* a window that closes before its last instant
isWithinWindow_endExcluded(now, startIso, endIso) ==
    IF ~Truthy(startIso) \/ ~Truthy(endIso) THEN TRUE
    ELSE LET st == DateValue(startIso)
             en == DateValue(endIso)
         IN  DateGeq(now, st) /\ now < en

\* a window test that takes a missing start or end for a date
isWithinWindow_noDefault(now, startIso, endIso) ==
    LET st == DateValue(startIso)
        en == DateValue(endIso)
    IN  DateGeq(now, st) /\ DateLeq(now, en)

isWithinWindow(now, startIso, endIso) ==
    IF ~Truthy(startIso) \/ ~Truthy(endIso) THEN TRUE
    ELSE LET st == DateValue(startIso)
             en == DateValue(endIso)
         IN  DateGeq(now, st) /\ DateLeq(now, en)

NoTime == -2

\* what a gate check leaves behind: the answer it sent, or the fields it set on
\* the request before calling next()
Denied(status, kind, access, now) ==
    [status |-> status, kind |-> kind, access |-> access, now |-> now,
     city |-> Undefined, planner |-> Undefined]

\* a token test that lets the empty token match an empty configured token
tokenRejected_emptyMatches(token, cfg) == token # cfg.token

\* the token test of the gate: the trimmed token is missing or differs
tokenRejected(token, cfg) == ~Truthy(token) \/ token # cfg.token

\* req.planner = cfg.planner || "Senior Planner"
plannerOf(cfg) == Or(cfg.planner, SeniorPlanner)

\* a gate that tests the token before the kill switch
gate_tokenFirst(cityQ, tokenQ, now, enabled) ==
    LET city  == trim(toLowerCase(Or(cityQ, Empty)))
        token == trim(Or(tokenQ, Empty))
        cfg   == getCityConfig(city)
    IN  IF ~cfg.found THEN Denied(404, "UnknownTenant", Undefined, NoTime)
        ELSE IF tokenRejected(token, cfg)
            THEN Denied(401, "InvalidToken", enabled, NoTime)
        ELSE IF ~Truthy(enabled)
            THEN Denied(403, "ServiceSuspended", enabled, NoTime)
        ELSE IF ~isWithinWindow(now, cfg.start, cfg.end)
            THEN Denied(403, "ServiceSuspended", enabled, now)
        ELSE [status |-> 0, kind |-> "PASS", access |-> enabled, now |-> now,
              city |-> city, planner |-> plannerOf(cfg)]

\* gate(req, res, next) with query ?city=cityQ&token=tokenQ at time now
gate(cityQ, tokenQ, now, enabled) ==
    LET city  == trim(toLowerCase(Or(cityQ, Empty)))
        token == trim(Or(tokenQ, Empty))
        cfg   == getCityConfig(city)
    IN  IF ~cfg.found THEN Denied(404, "UnknownTenant", Undefined, NoTime)
        ELSE IF ~Truthy(enabled)
            THEN Denied(403, "ServiceSuspended", enabled, NoTime)
        ELSE IF tokenRejected(token, cfg)
            THEN Denied(401, "InvalidToken", enabled, NoTime)
        ELSE IF ~isWithinWindow(now, cfg.start, cfg.end)
            THEN Denied(403, "ServiceSuspended", enabled, now)
        ELSE [status |-> 0, kind |-> "PASS", access |-> enabled, now |-> now,
              city |-> city, planner |-> plannerOf(cfg)]

----------------------------------------------------------------------------
(* Relevance scorer and context assembler: sliceByKeywords *)

AlnumChars ==
    {LowerChars[i] : i \in 1..Len(LowerChars)} \cup
    {UpperChars[i] : i \in 1..Len(UpperChars)} \cup
    {Digits[i] : i \in 1..Len(Digits)}

\* the characters the pattern class \w holds
WordChars == AlnumChars \cup {"_"}

\* s.split(/[^a-z0-9]+/i).filter(Boolean): the maximal runs of letters and digits
RECURSIVE splitAlnum(_, _, _)
splitAlnum(s, cur, acc) ==
    IF s = <<>>
    THEN IF cur = <<>> THEN acc ELSE Append(acc, cur)
    ELSE IF Head(s) \in AlnumChars
         THEN splitAlnum(Tail(s), Append(cur, Head(s)), acc)
         ELSE splitAlnum(Tail(s), <<>>, IF cur = <<>> THEN acc ELSE Append(acc, cur))

\* Array.from(new Set(xs)): the first occurrence of each element, in order
RECURSIVE dedupe(_, _)
dedupe(xs, acc) ==
    IF xs = <<>> THEN acc
    ELSE dedupe(Tail(xs),
                IF \E i \in 1..Len(acc) : acc[i] = Head(xs)
                THEN acc ELSE Append(acc, Head(xs)))

\* the terms of a question
queryTerms(question) ==
    dedupe(splitAlnum(toLowerCase(Or(question, Empty)), <<>>, <<>>), <<>>)

\* the character at position i is a word character
isWordAt(s, i) == i \in 1..Len(s) /\ s[i] \in WordChars

\* a boundary that only letters and digits make
wordBoundary_alnumOnly(s, i) ==
    (i - 1 \in 1..Len(s) /\ s[i - 1] \in AlnumChars) # (i \in 1..Len(s) /\ s[i] \in AlnumChars)

\* \b holds between the characters at i - 1 and i
wordBoundary(s, i) == isWordAt(s, i - 1) # isWordAt(s, i)

\* the pattern \bt\b matches at position i
matchAt(s, t, i) ==
    /\ i + Len(t) - 1 <= Len(s)
    /\ SubSeq(s, i, i + Len(t) - 1) = t
    /\ wordBoundary(s, i)
    /\ wordBoundary(s, i + Len(t))

\* (s.match(new RegExp(`\\b${escapeReg(t)}\\b`, "g")) || []).length: the
\* matches found left to right, the search resuming behind each match. A term
\* holds letters and digits only, so escapeReg leaves it as it is
RECURSIVE matchCount(_, _, _)
matchCount(s, t, i) ==
    IF i > Len(s) THEN 0
    ELSE IF matchAt(s, t, i) THEN 1 + matchCount(s, t, i + Len(t))
    ELSE matchCount(s, t, i + 1)

\* String.prototype.includes
includes(s, sub) ==
    \E i \in 1..(Len(s) - Len(sub) + 1) : SubSeq(s, i, i + Len(sub) - 1) = sub

Hints ==
    << <<"u","s","e">>, <<"p","e","r","m","i","t","t","e","d">>, <<"s","p","e","c","i","a","l">>,
       <<"p","a","r","k","i","n","g">>, <<"d","e","f","i","n","i","t","i","o","n">>,
       <<"d","i","s","t","r","i","c","t">>, <<"t","a","b","l","e">> >>

\* scores are counted in quarters: a match adds 1, a hint adds 0.25
Quarter == 4

RECURSIVE termScore(_, _)
termScore(lower, terms) ==
    IF terms = <<>> THEN 0
    ELSE (IF Len(Head(terms)) < 3 THEN 0
          ELSE Quarter * matchCount(lower, Head(terms), 1))
         + termScore(lower, Tail(terms))

hintScore(lower) == Cardinality({i \in 1..Len(Hints) : includes(lower, Hints[i])})

\* the score of one document, in quarters
scoreOf(text, terms) ==
    LET lower == toLowerCase(Or(text, Empty))
    IN  termScore(lower, terms) + hintScore(lower)

\* an insertion that puts a document before the documents of its own score
insertByScore_tiesFirst(sorted, s) ==
    LET k == Cardinality({i \in 1..Len(sorted) : sorted[i].score > s.score})
    IN  SubSeq(sorted, 1, k) \o <<s>> \o SubSeq(sorted, k + 1, Len(sorted))

\* one document enters the sorted list behind every document that the
\* comparator b.score - a.score does not put behind it
insertByScore(sorted, s) ==
    LET k == Cardinality({i \in 1..Len(sorted) : sorted[i].score >= s.score})
    IN  SubSeq(sorted, 1, k) \o <<s>> \o SubSeq(sorted, k + 1, Len(sorted))

\* scored.sort((a,b)=> b.score - a.score): Array.prototype.sort is stable
RECURSIVE sortByScore(_, _)
sortByScore(xs, acc) ==
    IF xs = <<>> THEN acc ELSE sortByScore(Tail(xs), insertByScore(acc, Head(xs)))

\* the documents of the corpus with their scores, in the order of Object.entries
scoreAll(all, terms) ==
    [i \in 1..Len(all) |->
        [file |-> all[i].file, text |-> all[i].text,
         score |-> scoreOf(all[i].text, terms)]]

\* `--- ${s.file} ---\n${(s.text||"").trim()}\n\n`
block(s) ==
    <<"-","-","-"," ">> \o s.file \o <<" ","-","-","-","\n">> \o trim(Or(s.text, Empty)) \o <<"\n","\n">>

\* an assembler that stops before the document that crosses the budget
RECURSIVE assemble_noCrossing(_, _, _, _)
assemble_noCrossing(scored, maxChars, out, total) ==
    IF scored = <<>> \/ total + Len(Or(Head(scored).text, Empty)) > maxChars THEN out
    ELSE assemble_noCrossing(Tail(scored), maxChars, out \o block(Head(scored)),
                             total + Len(Or(Head(scored).text, Empty)))

\* the loop over the ranked documents: the budget is tested before each append
RECURSIVE assemble(_, _, _, _)
assemble(scored, maxChars, out, total) ==
    IF scored = <<>> \/ total >= maxChars THEN out
    ELSE assemble(Tail(scored), maxChars, out \o block(Head(scored)),
                  total + Len(Or(Head(scored).text, Empty)))

DefaultMaxChars == 6000

rankDocuments(all, question) == sortByScore(scoreAll(all, queryTerms(question)), <<>>)

sliceByKeywords(all, question, maxChars) ==
    assemble(rankDocuments(all, question), maxChars, <<>>, 0)

----------------------------------------------------------------------------
(* Citation index and citation rewriter: loadIndex, prettyCitations *)

TxtSuffix == <<".","t","x","t">>

\* String.prototype.endsWith
endsWith(s, suffix) ==
    Len(s) >= Len(suffix) /\ SubSeq(s, Len(s) - Len(suffix) + 1, Len(s)) = suffix

\* s.split(sep) for a separator of one character: empty pieces are kept
RECURSIVE splitOn(_, _, _, _)
splitOn(s, sep, cur, acc) ==
    IF s = <<>> THEN Append(acc, cur)
    ELSE IF Head(s) = sep THEN splitOn(Tail(s), sep, <<>>, Append(acc, cur))
    ELSE splitOn(Tail(s), sep, Append(cur, Head(s)), acc)

\* raw.split(/\r?\n/).filter(Boolean): a "\r" right before a "\n" belongs to
\* the separator, and empty lines are dropped
splitLines(raw) ==
    LET pieces == splitOn(raw, "\n", <<>>, <<>>)
        cut == [i \in 1..Len(pieces) |->
                   IF i < Len(pieces) /\ endsWith(pieces[i], <<"\r">>)
                   THEN SubSeq(pieces[i], 1, Len(pieces[i]) - 1)
                   ELSE pieces[i]]
    IN  SelectSeq(cut, LAMBDA l : l # <<>>)

\* line.split(",").map(s => s?.trim() ?? "")
columns(line) ==
    LET cols == splitOn(line, ",", <<>>, <<>>)
    IN  [i \in 1..Len(cols) |-> trim(cols[i])]

\* the k-th name of a destructuring [file, article, title] = cols
column(cols, k) == IF k <= Len(cols) THEN cols[k] ELSE Undefined

\* Map.prototype.set: a key that is there keeps its place
mapSet(index, file, meta) ==
    IF \E k \in 1..Len(index) : index[k].file = file
    THEN [k \in 1..Len(index) |->
             IF index[k].file = file
             THEN [file |-> file, article |-> meta.article, title |-> meta.title]
             ELSE index[k]]
    ELSE Append(index, [file |-> file, article |-> meta.article, title |-> meta.title])

\* Map.prototype.get: found is FALSE for undefined
mapGet(index, file) ==
    IF \E k \in 1..Len(index) : index[k].file = file
    THEN LET e == index[CHOOSE k \in 1..Len(index) : index[k].file = file]
         IN  [found |-> TRUE, article |-> e.article, title |-> e.title]
    ELSE [found |-> FALSE, article |-> Undefined, title |-> Undefined]

\* the loop of loadIndex of part_002 over the lines
RECURSIVE indexLines(_, _)
indexLines(lines, index) ==
    IF lines = <<>> THEN index
    ELSE LET cols == columns(Head(lines))
             file == column(cols, 1)
         IN  indexLines(Tail(lines),
                 IF ~endsWith(toLowerCase(file), TxtSuffix) THEN index
                 ELSE mapSet(index, file,
                             [article |-> column(cols, 2), title |-> column(cols, 3)]))

\* loadIndex of part_002 on the text read("index.csv") returned ("" when the
\* file is not there)
loadIndex(raw) ==
    IF ~Truthy(trim(raw)) THEN <<>> ELSE indexLines(splitLines(raw), <<>>)

\* the loop of loadIndex of part_001 over the lines
RECURSIVE indexLines1(_, _)
indexLines1(lines, index) ==
    IF lines = <<>> THEN index
    ELSE LET cols == columns(Head(lines))
         IN  indexLines1(Tail(lines),
                 IF Len(cols) < 3 THEN index
                 ELSE IF ~endsWith(toLowerCase(cols[1]), TxtSuffix) THEN index
                 ELSE mapSet(index, cols[1], [article |-> cols[2], title |-> cols[3]]))

\* loadIndex of part_001
loadIndex1(raw) ==
    IF ~Truthy(trim(raw)) THEN <<>> ELSE indexLines1(splitLines(raw), <<>>)

\* the character U+2014 of the label, one character of the text
EmDash == "EMDASH"

\* the position of the first "]" behind position i, 0 when there is none
firstClose(s, i) ==
    IF \E j \in (i + 1)..Len(s) : s[j] = "]"
    THEN CHOOSE j \in (i + 1)..Len(s) :
            s[j] = "]" /\ \A k \in (i + 1)..(j - 1) : s[k] # "]"
    ELSE 0

\* the pattern \[([^\]]+\.txt)\] matches at position i: the group cannot hold
\* a "]", so the match ends at the first one
markerAt(s, i) ==
    /\ i \in 1..Len(s)
    /\ s[i] = "["
    /\ firstClose(s, i) > 0
    /\ LET f == SubSeq(s, i + 1, firstClose(s, i) - 1)
       IN  Len(f) > Len(TxtSuffix) /\ endsWith(f, TxtSuffix)

\* f.replace(/\.txt$/i, "")
stripTxt(f) ==
    IF endsWith(toLowerCase(f), TxtSuffix)
    THEN SubSeq(f, 1, Len(f) - Len(TxtSuffix))
    ELSE f

\* a lookup by the name as it stands between the brackets only
lookup_exactOnly(index, f) == mapGet(index, f)

\* index.get(f) || index.get(f.trim())
lookup(index, f) ==
    IF mapGet(index, f).found THEN mapGet(index, f) ELSE mapGet(index, trim(f))

\* the replacement of one marker
citation(index, f) ==
    LET meta == lookup(index, f)
    IN  IF ~meta.found THEN stripTxt(f)
        ELSE LET a == IF Truthy(meta.article)
                      THEN <<"A","r","t","i","c","l","e"," ">> \o meta.article
                      ELSE <<"A","r","t","i","c","l","e">>
                 t == Or(meta.title, Empty)
             IN  trim(a \o <<" ", EmDash, " ">> \o t)

\* text.replace(/\[([^\]]+\.txt)\]/g, ...): the matches left to right, the
\* search resuming behind each match
RECURSIVE replaceMarkers(_, _, _)
replaceMarkers(index, s, i) ==
    IF i > Len(s) THEN <<>>
    ELSE IF markerAt(s, i)
         THEN citation(index, SubSeq(s, i + 1, firstClose(s, i) - 1))
              \o replaceMarkers(index, s, firstClose(s, i) + 1)
         ELSE <<s[i]>> \o replaceMarkers(index, s, i + 1)

\* prettyCitations of part_002, on the text of the side file
prettyCitations(raw, text) == replaceMarkers(loadIndex(raw), text, 1)

\* prettyCitations of part_001: an empty index strips the suffix of each marker
prettyCitations1(raw, text) ==
    IF Len(loadIndex1(raw)) = 0
    THEN replaceMarkers(<<>>, text, 1)
    ELSE replaceMarkers(loadIndex1(raw), text, 1)

----------------------------------------------------------------------------
(* Corpus store: the directory of a tenant, read, loadAll *)

IndexCsv == <<"i","n","d","e","x",".","c","s","v">>

\* read(p): the text of the file, "" when it cannot be read
readFile(dir, name) ==
    IF dir.listing = "ok" /\ \E k \in 1..Len(dir.entries) : dir.entries[k].name = name
    THEN dir.entries[CHOOSE k \in 1..Len(dir.entries) : dir.entries[k].name = name].text
    ELSE <<>>

\* fs.readdirSync(dir).filter(f => f.toLowerCase().endsWith(".txt"))
docFiles(dir) ==
    SelectSeq(dir.entries, LAMBDA e : endsWith(toLowerCase(e.name), TxtSuffix))

\* for (const f of files) map[f] = read(path.join(dir, f))
readAll(dir) ==
    [i \in 1..Len(docFiles(dir)) |->
        [file |-> docFiles(dir)[i].name, text |-> docFiles(dir)[i].text]]

\* loadAll of part_002: dirExists(dir), then a listing nothing catches
loadAll(dir) ==
    IF dir.stat # "dir" THEN [threw |-> FALSE, all |-> <<>>]
    ELSE IF dir.listing # "ok" THEN [threw |-> TRUE, all |-> <<>>]
    ELSE [threw |-> FALSE, all |-> readAll(dir)]

\* loadAll of part_001: the listing inside try, {} from catch
loadAll1(dir) ==
    IF dir.listing # "ok" THEN [threw |-> FALSE, all |-> <<>>]
    ELSE [threw |-> FALSE, all |-> readAll(dir)]

\* `--- ${s.file} ---\n${s.text.trim()}\n` of part_001
block1(s) ==
    <<"-","-","-"," ">> \o s.file \o <<" ","-","-","-","\n">> \o trim(s.text) \o <<"\n">>

\* the loop of part_001 over the ranked documents: the blocks it pushed
RECURSIVE assemble1(_, _, _, _)
assemble1(scored, maxChars, out, total) ==
    IF scored = <<>> \/ total >= maxChars THEN out
    ELSE assemble1(Tail(scored), maxChars, Append(out, block1(Head(scored))),
                   total + Len(Head(scored).text))

\* Array.prototype.join
RECURSIVE join(_, _)
join(xs, sep) ==
    IF xs = <<>> THEN <<>>
    ELSE IF Len(xs) = 1 THEN xs[1]
    ELSE xs[1] \o sep \o join(Tail(xs), sep)

\* sliceByKeywords of part_001
sliceByKeywords1(all, question, maxChars) ==
    join(assemble1(rankDocuments(all, question), maxChars, <<>>, 0), <<"\n">>)

----------------------------------------------------------------------------
(* What requests may carry *)

CityInputs ==
    {Undefined, S_ab, <<" ","A","B">>, S_nw, S_hw, S_et, S_Cd, <<"z","z">>,
     S_constructor}

TokenInputs == {Undefined, S_tk, <<" ","t","k"," ">>, <<"n","o">>}

UserInputs == {Undefined, <<" ">>, <<"h","i">>}

\* the directory content/<city> as a request finds it: not there; there for
\* statSync and gone or unreadable for readdirSync; or listed with its files
DirStates ==
    { [stat |-> "none", listing |-> "fails", entries |-> <<>>],
      [stat |-> "dir", listing |-> "fails", entries |-> <<>>],
      [stat |-> "dir", listing |-> "ok", entries |-> <<>>],
      [stat |-> "dir", listing |-> "ok", entries |->
          << [name |-> IndexCsv, text |-> <<"a",".","t","x","t",",","4",",","P","a","r","k","i","n","g","\n">>],
             [name |-> <<"n","o","t","e","s",".","m","d">>, text |-> <<"p","a","r","k","i","n","g">>] >>],
      [stat |-> "dir", listing |-> "ok", entries |->
          << [name |-> <<"a",".","t","x","t">>, text |-> <<"p","a","r","k","i","n","g"," ","i","s"," ","p","e","r","m","i","t","t","e","d">>],
             [name |-> <<"B",".","T","X","T">>, text |-> <<" ">>],
             [name |-> IndexCsv, text |-> <<"a",".","t","x","t",",","4",",","P","a","r","k","i","n","g","\n">>] >>] }

\* what the generation collaborator may put into message.content
ModelAnswers == { <<"S","e","e"," ","[","a",".","t","x","t","]","."," ">>, <<"o","k">> }

KeyInputs == {Undefined, S_admin, <<"k","e","y"," ">>}

\* request bodies of the toggle: nothing, text that is no JSON, the JSON text
\* null, or a JSON object with its "enabled" and "key" fields
ObjectBodies ==
    [kind : {"object"},
     enabled : {JsTrue, JsFalse, Undefined, <<"f","a","l","s","e">>},
     key : {Undefined, S_admin}]

Bodies ==
    {[kind |-> k, enabled |-> Undefined, key |-> Undefined] :
        k \in {"empty", "bad", "null"}} \cup ObjectBodies

ContentTypes == {"json", "other"}

ChatCityInputs == {Undefined, S_ab, <<"c","D">>, S_et, <<"z","z">>}

----------------------------------------------------------------------------
(* State *)

IdleRespond ==
    [pc |-> "idle", gate |-> "none", city |-> Undefined, planner |-> Undefined]

IdleToggle == [pc |-> "idle", hasBody |-> FALSE, queryKey |-> Undefined]

IdleChat == [pc |-> "idle", gate |-> "none", city |-> Undefined]

NoEvent == [route |-> "none"]

Init ==
    /\ cities = CitiesJson
    /\ \E e \in AdminKeyEnv : ADMIN_KEY = Or(e, Empty)
    /\ \E e \in AccessEnabledEnv : runtimeAccessEnabled = InitialAccess(e)
    /\ respond = IdleRespond
    /\ toggle = IdleToggle
    /\ chat = IdleChat
    /\ ev = NoEvent

\* the answer of the last handler run has left: the event loop takes the next event
Ready == ev.route = "none"

ResponseSent ==
    /\ ~Ready
    /\ ev' = NoEvent
    /\ UNCHANGED <<cities, ADMIN_KEY, runtimeAccessEnabled, respond, toggle, chat>>

----------------------------------------------------------------------------
(* POST /api/respond, behind the gate *)

\* express.json() starts reading the JSON body of a request; the handlers run
\* when the body has been read
R_Arrive ==
    /\ Ready
    /\ respond.pc = "idle"
    /\ respond' = [respond EXCEPT !.pc = "bodyparser"]
    /\ UNCHANGED <<cities, ADMIN_KEY, runtimeAccessEnabled, toggle, chat, ev>>

\* the body is no JSON: the parser answers 400 and no handler runs
R_BadJson ==
    /\ Ready
    /\ respond.pc = "bodyparser"
    /\ respond' = IdleRespond
    /\ ev' = [route |-> "respond", stage |-> "bodyparser", status |-> 400,
              gate |-> "none", loaded |-> FALSE, called |-> FALSE]
    /\ UNCHANGED <<cities, ADMIN_KEY, runtimeAccessEnabled, toggle, chat>>

\* an answer of the handler before anything is loaded
NothingLoaded(dir) ==
    [status |-> 0, text |-> "", loaded |-> FALSE, called |-> FALSE,
     dir |-> dir, threw |-> FALSE, all |-> <<>>, context |-> "none"]

\* the handler of /api/respond up to the call of the generation collaborator.
\* hasKey: process.env.OPENAI_API_KEY holds a value. The questions here are
\* shorter than the 2000 characters slice(0, 2000) keeps
respondSync(hasKey, user, dir) ==
    LET q == trim(Or(user, Empty))
        l == loadAll(dir)
        context == sliceByKeywords(l.all, q, DefaultMaxChars)
    IN  IF ~hasKey
            THEN [NothingLoaded(dir) EXCEPT !.status = 500, !.text = "MissingKey"]
        ELSE IF ~Truthy(q)
            THEN [NothingLoaded(dir) EXCEPT !.status = 200, !.text = "PleaseEnter"]
        ELSE IF l.threw
            THEN [NothingLoaded(dir) EXCEPT !.status = 500, !.text = "ServerError",
                                            !.loaded = TRUE, !.threw = TRUE]
        ELSE IF ~Truthy(trim(context))
            THEN [NothingLoaded(dir) EXCEPT !.status = 200, !.text = "NoGrounding",
                                            !.loaded = TRUE, !.all = l.all,
                                            !.context = "empty"]
        ELSE [NothingLoaded(dir) EXCEPT !.loaded = TRUE, !.called = TRUE,
                                        !.all = l.all, !.context = "text"]

\* the handler of /api/respond of part_001 up to the call of the generation
\* collaborator: the context goes into the prompt as it is
respondSync1(user, dir) ==
    LET question == Or(user, Empty)
        l == loadAll1(dir)
        context == sliceByKeywords1(l.all, question, DefaultMaxChars)
    IN  IF ~Truthy(trim(question))
            THEN [NothingLoaded(dir) EXCEPT !.status = 200, !.text = "PleaseEnter"]
        ELSE [NothingLoaded(dir) EXCEPT !.loaded = TRUE, !.called = TRUE,
                  !.all = l.all,
                  !.context = IF Truthy(trim(context)) THEN "text" ELSE "empty"]

\* respondSync for every key state, question and directory a request may meet
HandlerRuns ==
    [hasKey \in BOOLEAN, user \in UserInputs, dir \in DirStates |->
        respondSync(hasKey, user, dir)]

\* respondSync1 for every question and directory a request may meet
HandlerRuns1 ==
    [user \in UserInputs, dir \in DirStates |-> respondSync1(user, dir)]

\* the answer text as the handler of part_002 sends it: trimmed, then
\* rewritten with the side file the directory holds by then
Rewrites ==
    [content \in ModelAnswers, dir \in DirStates |->
        prettyCitations(readFile(dir, IndexCsv), trim(content))]

\* the answer text as the handler of part_001 sends it
Rewrites1 ==
    [content \in ModelAnswers \cup {Undefined}, dir \in DirStates |->
        prettyCitations1(readFile(dir, IndexCsv), trim(Or(content, Empty)))]

\* a gate that switches access back on when it runs
gateEffect_resets == cities' = cities /\ runtimeAccessEnabled' = JsTrue

\* what a gate check writes: nothing but the answer or the fields of the request
gateEffect == UNCHANGED <<cities, runtimeAccessEnabled>>

\* the times a gate check may read: new Date() runs only after the token test
clockReads(cityQ, tokenQ, enabled) ==
    IF gate(cityQ, tokenQ, 0, enabled).now = NoTime THEN {0} ELSE Times

\* gate, then the handler, in one turn of the event loop; a request without a
\* JSON body gets here at once and has no req.body.user
R_Handle ==
    /\ Ready
    /\ respond.pc \in {"idle", "bodyparser"}
    /\ \E cityQ \in CityInputs, tokenQ \in TokenInputs :
       \E now \in clockReads(cityQ, tokenQ, runtimeAccessEnabled) :
        LET g == gate(cityQ, tokenQ, now, runtimeAccessEnabled)
        IN  IF g.kind # "PASS"
            THEN /\ ev' = [route |-> "respond", stage |-> "gate", cityQ |-> cityQ,
                           tokenQ |-> tokenQ, g |-> g, gate |-> g.kind,
                           status |-> g.status, text |-> "",
                           loaded |-> FALSE, called |-> FALSE]
                 /\ respond' = IdleRespond
            ELSE \E user \in IF respond.pc = "idle" THEN {Undefined} ELSE UserInputs,
                    hasKey \in BOOLEAN, dir \in DirStates :
                   LET h == HandlerRuns[hasKey, user, dir]
                   IN  /\ ev' = [route |-> "respond", stage |-> "handler",
                                 cityQ |-> cityQ, tokenQ |-> tokenQ, g |-> g,
                                 gate |-> g.kind, status |-> h.status,
                                 text |-> h.text, loaded |-> h.loaded,
                                 called |-> h.called, dir |-> h.dir,
                                 threw |-> h.threw, all |-> h.all,
                                 context |-> h.context]
                       /\ respond' = IF h.called
                                     THEN [pc |-> "awaiting", gate |-> g.kind,
                                           city |-> g.city, planner |-> g.planner]
                                     ELSE IdleRespond
    /\ gateEffect
    /\ UNCHANGED <<ADMIN_KEY, toggle, chat>>

\* a handler that tests the flag again when the generation call has returned
answerStatus_rechecks(result) ==
    IF ~Truthy(runtimeAccessEnabled) THEN 403
    ELSE CASE result = "text" -> 200
           [] result = "empty" -> 502
           [] OTHER -> 500

\* the status of the answer behind the generation call: 200 with the text, 502
\* for no text, 500 from catch
answerStatus(result) ==
    CASE result = "text" -> 200
      [] result = "empty" -> 502
      [] OTHER -> 500

\* the generation call returns a text, returns nothing, or fails; the text is
\* trimmed and rewritten with the index the directory holds by then
R_GenerationReturns ==
    /\ Ready
    /\ respond.pc = "awaiting"
    /\ \E result \in {"text", "empty", "throws"}, content \in ModelAnswers,
          dir \in DirStates :
        ev' = [route |-> "respond", stage |-> "answer", gate |-> respond.gate,
               status |-> answerStatus(result),
               text |-> result, loaded |-> TRUE, called |-> TRUE,
               answer |-> IF result = "text"
                          THEN Rewrites[content, dir]
                          ELSE <<>>]
    /\ respond' = IdleRespond
    /\ UNCHANGED <<cities, ADMIN_KEY, runtimeAccessEnabled, toggle, chat>>

----------------------------------------------------------------------------
(* POST /api/respond of part_001, behind the same gate *)

\* gate, then the handler of part_001, in one turn of the event loop
R1_Handle ==
    /\ Ready
    /\ respond.pc \in {"idle", "bodyparser"}
    /\ \E cityQ \in CityInputs, tokenQ \in TokenInputs :
       \E now \in clockReads(cityQ, tokenQ, runtimeAccessEnabled) :
        LET g == gate(cityQ, tokenQ, now, runtimeAccessEnabled)
        IN  IF g.kind # "PASS"
            THEN /\ ev' = [route |-> "respond1", stage |-> "gate", cityQ |-> cityQ,
                           tokenQ |-> tokenQ, g |-> g, gate |-> g.kind,
                           status |-> g.status, text |-> "",
                           loaded |-> FALSE, called |-> FALSE]
                 /\ respond' = IdleRespond
            ELSE \E user \in IF respond.pc = "idle" THEN {Undefined} ELSE UserInputs,
                    dir \in DirStates :
                   LET h == HandlerRuns1[user, dir]
                   IN  /\ ev' = [route |-> "respond1", stage |-> "handler",
                                 cityQ |-> cityQ, tokenQ |-> tokenQ, g |-> g,
                                 gate |-> g.kind, status |-> h.status,
                                 text |-> h.text, loaded |-> h.loaded,
                                 called |-> h.called, dir |-> h.dir,
                                 threw |-> h.threw, all |-> h.all,
                                 context |-> h.context]
                       /\ respond' = IF h.called
                                     THEN [pc |-> "awaiting1", gate |-> g.kind,
                                           city |-> g.city, planner |-> g.planner]
                                     ELSE IdleRespond
    /\ gateEffect
    /\ UNCHANGED <<ADMIN_KEY, toggle, chat>>

\* the generation call of part_001 returns a text or fails; any text, also
\* the empty one, is rewritten and answered
R1_GenerationReturns ==
    /\ Ready
    /\ respond.pc = "awaiting1"
    /\ \E result \in {"text", "throws"}, content \in ModelAnswers \cup {Undefined},
          dir \in DirStates :
        ev' = [route |-> "respond1", stage |-> "answer", gate |-> respond.gate,
               status |-> IF result = "text" THEN 200 ELSE 500,
               text |-> result, loaded |-> TRUE, called |-> TRUE,
               answer |-> IF result = "text"
                          THEN Rewrites1[content, dir]
                          ELSE <<>>]
    /\ respond' = IdleRespond
    /\ UNCHANGED <<cities, ADMIN_KEY, runtimeAccessEnabled, toggle, chat>>

----------------------------------------------------------------------------
(* POST /admin/toggle *)

\* the key adminAuth compares: req.query.key || req.body?.key || ""
presentedKey(queryKey, bodyKey) == Or(queryKey, Or(bodyKey, Empty))

\* an adminAuth that accepts the empty credential when none is configured
adminAuth_unsetKeyMatches(key, adminKey) == key = adminKey

\* adminAuth lets the request through
adminAuth(key, adminKey) == Truthy(adminKey) /\ key = adminKey

\* a parse that takes any text
parseThrows_never(body) == FALSE

\* JSON.parse(body || "{}").enabled throws: no JSON, or null has no property
parseThrows(body) == body.kind \in {"bad", "null"}

\* the value the handler assigns: !!JSON.parse(body || "{}").enabled
toggleValue(body) == ToBoolean(body.enabled)

ToggleEvent(stage, key, status, before) ==
    [route |-> "toggle", stage |-> stage, key |-> key, status |-> status,
     before |-> before, body |-> [kind |-> "empty", enabled |-> Undefined, key |-> Undefined]]

\* the bodies a request may turn out to carry
bodiesOf(hasBody) ==
    {b \in Bodies : (b.kind # "empty") = hasBody}

\* a toggle request arrives. A JSON body is first read by express.json();
\* otherwise adminAuth and the handler run at once, req.body holds no key, and
\* the handler listens for the "data" and "end" events of the request
T_Arrive ==
    /\ Ready
    /\ toggle.pc = "idle"
    /\ \E ctype \in ContentTypes, hasBody \in BOOLEAN, queryKey \in KeyInputs :
        IF ctype = "json" /\ hasBody
        THEN /\ toggle' = [pc |-> "bodyparser", hasBody |-> hasBody,
                         queryKey |-> queryKey]
             /\ ev' = ev
        ELSE LET key == presentedKey(queryKey, Undefined)
             IN  IF adminAuth(key, ADMIN_KEY)
                 THEN /\ toggle' = [pc |-> "listening", hasBody |-> hasBody,
                                  queryKey |-> queryKey]
                      /\ ev' = ev
                 ELSE /\ toggle' = IdleToggle
                      /\ ev' = ToggleEvent("auth", key, 401, runtimeAccessEnabled)
    /\ UNCHANGED <<cities, ADMIN_KEY, runtimeAccessEnabled, respond, chat>>

\* express.json() has read the body to its end. Text that is no JSON object is
\* answered 400 by the parser; otherwise req.body is set, adminAuth runs, and the
\* handler starts listening on a request whose "end" event was already emitted
T_BodyParsed ==
    /\ Ready
    /\ toggle.pc = "bodyparser"
    /\ \E body \in bodiesOf(toggle.hasBody) :
        LET key == presentedKey(toggle.queryKey, body.key)
        IN  IF body.kind # "object"
            THEN /\ toggle' = IdleToggle
                 /\ ev' = ToggleEvent("bodyparser", presentedKey(toggle.queryKey, Undefined),
                                      400, runtimeAccessEnabled)
            ELSE IF adminAuth(key, ADMIN_KEY)
            THEN /\ toggle' = [pc |-> "ended", hasBody |-> toggle.hasBody,
                              queryKey |-> key]
                 /\ ev' = ev
            ELSE /\ toggle' = IdleToggle
                 /\ ev' = ToggleEvent("auth", key, 401, runtimeAccessEnabled)
    /\ UNCHANGED <<cities, ADMIN_KEY, runtimeAccessEnabled, respond, chat>>

\* the "end" event of a request the handler is listening on
T_End ==
    /\ Ready
    /\ toggle.pc = "listening"
    /\ \E body \in bodiesOf(toggle.hasBody) :
        IF parseThrows(body)
        THEN /\ runtimeAccessEnabled' = runtimeAccessEnabled
             /\ ev' = [ToggleEvent("end", presentedKey(toggle.queryKey, Undefined),
                                   400, runtimeAccessEnabled)
                         EXCEPT !.body = body]
        ELSE /\ runtimeAccessEnabled' = toggleValue(body)
             /\ ev' = [ToggleEvent("end", presentedKey(toggle.queryKey, Undefined),
                                   200, runtimeAccessEnabled)
                         EXCEPT !.body = body]
    /\ toggle' = IdleToggle
    /\ UNCHANGED <<cities, ADMIN_KEY, respond, chat>>

----------------------------------------------------------------------------
(* POST /api/chat of server.js *)

\* getCityConfig of server.js: the configured key that equals the name up to case
chatCityKeys(name) ==
    {k \in DOMAIN cities : toLowerCase(k) = toLowerCase(trim(Or(name, Empty)))}

\* the handler of /api/chat up to the call of the generation collaborator
chatSync(city, message, hasKey) ==
    IF ~Truthy(city) \/ ~Truthy(message) THEN 400
    ELSE IF chatCityKeys(city) = {} THEN 404
    ELSE LET cfg == cities[CHOOSE k \in chatCityKeys(city) : TRUE]
         IN  IF ~Truthy(cfg.envKey) \/ cfg.envKey \notin ProcessEnv THEN 500
             ELSE IF ~hasKey THEN 500
             ELSE 0

C_Handle ==
    /\ Ready
    /\ chat.pc = "idle"
    /\ \E city \in ChatCityInputs, message \in UserInputs, hasKey \in BOOLEAN :
        LET status == chatSync(city, message, hasKey)
        IN  /\ ev' = [route |-> "chat", stage |-> "handler", gate |-> "none",
                      status |-> status, text |-> "", loaded |-> FALSE,
                      called |-> (status = 0)]
            /\ chat' = IF status = 0
                       THEN [pc |-> "awaiting", gate |-> "none",
                             city |-> CHOOSE k \in chatCityKeys(city) : TRUE]
                       ELSE IdleChat
    /\ UNCHANGED <<cities, ADMIN_KEY, runtimeAccessEnabled, respond, toggle>>

C_GenerationReturns ==
    /\ Ready
    /\ chat.pc = "awaiting"
    /\ \E result \in {"text", "throws"} :
        ev' = [route |-> "chat", stage |-> "answer", gate |-> chat.gate,
               status |-> IF result = "text" THEN 200 ELSE 500,
               text |-> result, loaded |-> FALSE, called |-> TRUE]
    /\ chat' = IdleChat
    /\ UNCHANGED <<cities, ADMIN_KEY, runtimeAccessEnabled, respond, toggle>>

----------------------------------------------------------------------------
(* The server *)

Next ==
    \/ R_Arrive
    \/ R_BadJson
    \/ R_Handle
    \/ R_GenerationReturns
    \/ T_Arrive
    \/ T_BodyParsed
    \/ T_End
    \/ C_Handle
    \/ C_GenerationReturns
    \/ ResponseSent

Spec == Init /\ [][Next]_vars

\* the event loop delivers every event it holds, however many other requests
\* arrive meanwhile, and every call of the generation collaborator returns
FairSpec ==
    /\ Spec
    /\ WF_vars(ResponseSent)
    /\ SF_vars(R_BadJson \/ R_Handle)
    /\ SF_vars(R_GenerationReturns)
    /\ SF_vars(T_BodyParsed)
    /\ SF_vars(T_End)
    /\ SF_vars(C_GenerationReturns)

----------------------------------------------------------------------------
(* The server of part_001: the same gate and toggle, its own /api/respond *)

Next1 ==
    \/ R_Arrive
    \/ R_BadJson
    \/ R1_Handle
    \/ R1_GenerationReturns
    \/ T_Arrive
    \/ T_BodyParsed
    \/ T_End
    \/ ResponseSent

Spec1 == Init /\ [][Next1]_vars

----------------------------------------------------------------------------
(* sliceByKeywords on its own: the calls it may get and what it returns *)

\* a corpus holds at most MaxDocs documents
MaxDocs == 3

\* the name of the i-th file of a corpus
fileName(i) == <<"d", Digits[i + 1]>> \o <<".","t","x","t">>

SliceTexts ==
    { <<"p","a","r","k","i","n","g"," ","i","s"," ","p","e","r","m","i","t","t","e","d">>,
      <<"P","a","r","k","i","n","g"," ","p","a","r","k","i","n","g","_","l","o","t">>,
      <<"p","a","r","k","i","n","g","s"," ","u","n","p","a","r","k","i","n","g">>,
      <<" ","z","o","n","i","n","g"," ","m","a","p"," ">>,
      <<"l","o","t"," ","1","2"," ","i","s"," ","a"," ","l","o","t">>,
      <<>> }

\* what loadAll may return: an object whose entries keep the order of the listing
Corpora ==
    UNION {{[i \in 1..n |-> [file |-> fileName(i), text |-> f[i]]] :
                f \in [1..n -> SliceTexts]} : n \in 0..MaxDocs}

Questions ==
    { <<"P","a","r","k","i","n","g"," ","p","a","r","k","i","n","g"," ","i","s"," ","l","o","t">>,
      <<"d","i","s","t","r","i","c","t"," ","m","a","p">>,
      <<"i","s"," ","1","2"," ","a">>,
      <<"z","o","n","i","n","g","_","l","o","t","?">> }

MaxCharsInputs == {0, 10, 20, DefaultMaxChars}

SliceCalled == ev.route = "sliceByKeywords" /\ ev.stage = "call"

SliceReturned == ev.route = "sliceByKeywords" /\ ev.stage = "return"

SliceInit ==
    /\ cities = CitiesJson
    /\ ADMIN_KEY = Empty
    /\ runtimeAccessEnabled = JsTrue
    /\ respond = IdleRespond
    /\ toggle = IdleToggle
    /\ chat = IdleChat
    /\ \E all \in Corpora, question \in Questions, maxChars \in MaxCharsInputs :
        ev = [route |-> "sliceByKeywords", stage |-> "call", all |-> all,
              question |-> question, maxChars |-> maxChars]

\* the call runs to its return: the ranking it sorted and the context it built
SliceReturns ==
    /\ SliceCalled
    /\ ev' = [route |-> "sliceByKeywords", stage |-> "return", all |-> ev.all,
              question |-> ev.question, maxChars |-> ev.maxChars,
              scored |-> rankDocuments(ev.all, ev.question),
              out |-> sliceByKeywords(ev.all, ev.question, ev.maxChars)]
    /\ UNCHANGED <<cities, ADMIN_KEY, runtimeAccessEnabled, respond, toggle, chat>>

SliceNext == SliceReturns

SliceSpec == SliceInit /\ [][SliceNext]_vars

----------------------------------------------------------------------------
(* prettyCitations on its own: an answer is rewritten, and the result again *)

\* a text is made of at most MaxFrags pieces
MaxFrags == 4

TextPieces ==
    { <<"[">>, <<"]">>, <<" ">>, <<"a",".","t","x","t">>, TxtSuffix, <<"S","e","e">> }

RECURSIVE joinPieces(_)
joinPieces(ps) == IF ps = <<>> THEN <<>> ELSE Head(ps) \o joinPieces(Tail(ps))

Answers ==
    UNION {{joinPieces(ps) : ps \in [1..n -> TextPieces]} : n \in 0..MaxFrags}

\* the side files of a tenant: none, or these texts
SideFiles ==
    { <<>>,
      <<"a",".","t","x","t",",","4",",","P","a","r","k","i","n","g","\n">>,
      <<"a",".","t","x","t",",",",","P","a","r","k","i","n","g">>,
      <<"f","i","l","e",",","a","r","t","i","c","l","e",",","t","i","t","l","e","\r","\n","a",".","t","x","t",","," ","4"," ",",","\r","\n">>,
      <<"a",".","t","x","t",",","4",",","[","b",".","t","x","t","]">>,
      <<"a",".","t","x","t",",","4">> }

CiteInit ==
    /\ cities = CitiesJson
    /\ ADMIN_KEY = Empty
    /\ runtimeAccessEnabled = JsTrue
    /\ respond = IdleRespond
    /\ toggle = IdleToggle
    /\ chat = IdleChat
    /\ \E raw \in SideFiles, text \in Answers :
        ev = [route |-> "prettyCitations", stage |-> "call", raw |-> raw,
              text |-> text]

CiteReturns ==
    /\ ev.route = "prettyCitations" /\ ev.stage = "call"
    /\ ev' = [route |-> "prettyCitations", stage |-> "return", raw |-> ev.raw,
              text |-> ev.text, index |-> loadIndex(ev.raw),
              out |-> prettyCitations(ev.raw, ev.text)]
    /\ UNCHANGED <<cities, ADMIN_KEY, runtimeAccessEnabled, respond, toggle, chat>>

\* the rewritten text is rewritten once more
CiteAgain ==
    /\ ev.route = "prettyCitations" /\ ev.stage = "return"
    /\ ev' = [route |-> "prettyCitations", stage |-> "again", raw |-> ev.raw,
              text |-> ev.text, index |-> ev.index, out |-> ev.out,
              again |-> prettyCitations(ev.raw, ev.out)]
    /\ UNCHANGED <<cities, ADMIN_KEY, runtimeAccessEnabled, respond, toggle, chat>>

CiteNext == CiteReturns \/ CiteAgain

CiteSpec == CiteInit /\ [][CiteNext]_vars

----------------------------------------------------------------------------
(* loadIndex on its own: a side file is read by either revision *)

\* a side file holds at most MaxLines lines
MaxLines == 2

IndexLineInputs ==
    { <<"a",".","t","x","t",",","4",",","P","a","r","k","i","n","g">>,
      <<" ","b",".","t","x","t"," ",","," ","5"," ",","," ","S","i","g","n","s"," ">>,
      <<"a",".","t","x","t",",","9",",","A","g","a","i","n",",","m","o","r","e">>,
      <<"B",".","T","X","T",",",",">>,
      <<"a",".","t","x","t",",","4">>,
      <<"b",".","t","x","t">>,
      <<"n","o","t","e","s",".","m","d",",","1",",","N","o","t","e","s">>,
      <<"f","i","l","e",",","a","r","t","i","c","l","e",",","t","i","t","l","e">>,
      <<" ",","," ",",">> }

RECURSIVE joinLines(_)
joinLines(ls) ==
    IF ls = <<>> THEN <<>> ELSE Head(ls) \o <<"\n">> \o joinLines(Tail(ls))

\* the texts read("index.csv") may return; "" also stands for a file that is
\* not there
IndexFiles ==
    UNION {{joinLines(ls) : ls \in [1..n -> IndexLineInputs]} : n \in 0..MaxLines}

IndexInit ==
    /\ cities = CitiesJson
    /\ ADMIN_KEY = Empty
    /\ runtimeAccessEnabled = JsTrue
    /\ respond = IdleRespond
    /\ toggle = IdleToggle
    /\ chat = IdleChat
    /\ \E raw \in IndexFiles :
        ev = [route |-> "loadIndex", stage |-> "call", raw |-> raw]

\* loadIndex of part_002 returns
IndexLoads ==
    /\ ev.route = "loadIndex" /\ ev.stage = "call"
    /\ ev' = [route |-> "loadIndex", stage |-> "return", raw |-> ev.raw,
              index |-> loadIndex(ev.raw)]
    /\ UNCHANGED <<cities, ADMIN_KEY, runtimeAccessEnabled, respond, toggle, chat>>

\* loadIndex of part_001 returns
IndexLoads1 ==
    /\ ev.route = "loadIndex" /\ ev.stage = "call"
    /\ ev' = [route |-> "loadIndex", stage |-> "return1", raw |-> ev.raw,
              index |-> loadIndex1(ev.raw)]
    /\ UNCHANGED <<cities, ADMIN_KEY, runtimeAccessEnabled, respond, toggle, chat>>

IndexNext == IndexLoads \/ IndexLoads1

IndexSpec == IndexInit /\ [][IndexNext]_vars

----------------------------------------------------------------------------
(* Properties *)

\* the last handler run was a gate check (of /api/respond)
GateRan == ev.route = "respond" /\ ev.stage \in {"gate", "handler"}

\* the tenant identifier as the gate reads it, and the configuration it finds
GateCity == trim(toLowerCase(Or(ev.cityQ, Empty)))
GateCfg == getCityConfig(GateCity)
GateToken == trim(Or(ev.tokenQ, Empty))

Disabled == runtimeAccessEnabled = JsFalse
Enabled == runtimeAccessEnabled = JsTrue

\* the presented token is the tenant's token, surrounding blanks aside
CorrectToken == GateToken # Empty /\ GateToken = GateCfg.token

HasWindow(cfg) ==
    cfg.start \notin {Undefined, Empty} /\ cfg.end \notin {Undefined, Empty}

\* C1: while the runtime-access flag is disabled, a gate check for a tenant the
\* gate resolves fails with ServiceSuspended whatever token is presented, never
\* with InvalidToken or PASS: the kill switch is tested before the token
C1_KillSwitchBeforeToken ==
    (GateRan /\ GateCfg.found /\ Disabled) =>
        /\ ev.gate = "ServiceSuspended"
        /\ ev.status = 403

\* C1 witness: the flag is off and the tenant's correct token was presented
C1_Witness ==
    /\ GateRan /\ Disabled /\ GateCity = S_ab /\ CorrectToken
    /\ ev.gate = "ServiceSuspended"

\* C2 (as claimed): a request reaches the corpus or the generation collaborator
\* only after the gate returned PASS for it
C2_GateBeforeGeneration ==
    /\ (respond.pc = "awaiting" => respond.gate = "PASS")
    /\ (chat.pc = "awaiting" => chat.gate = "PASS")
    /\ (ev.route \in {"respond", "chat"} /\ (ev.loaded \/ ev.called))
            => ev.gate = "PASS"

\* C3 (as claimed): with access enabled, every presented token that is not
\* exactly the resolved tenant's configured token fails with InvalidToken
C3_ExactTokenOnly ==
    (GateRan /\ GateCfg.found /\ Enabled /\ Or(ev.tokenQ, Empty) # GateCfg.token)
        => ev.gate = "InvalidToken"

\* C3 (amended): with access enabled, the gate fails with InvalidToken whenever
\* the presented token with its surrounding blanks removed is empty or is not
\* exactly the resolved tenant's configured token; an empty or absent token
\* never passes, also when the configured token is empty
C3_TrimmedTokenOnly ==
    (GateRan /\ GateCfg.found /\ Enabled) =>
        /\ (GateToken # GateCfg.token => ev.gate = "InvalidToken")
        /\ (GateToken = Empty => ev.gate = "InvalidToken")
        /\ (ev.gate = "InvalidToken" => ev.status = 401)

\* C3 witness: the empty token presented to the tenant whose token is empty
C3_Witness ==
    /\ GateRan /\ Enabled /\ GateCity = S_et /\ ev.tokenQ = Undefined
    /\ GateCfg.token = Empty /\ ev.gate = "InvalidToken"

\* the configured keys an identifier names, letter case aside
KeysNamed(id) ==
    {k \in DOMAIN cities : toLowerCase(k) = toLowerCase(Or(id, Empty))}

\* C4 (as claimed): an identifier that equals a configured key up to letter case
\* resolves that tenant; any other identifier fails with UnknownTenant
C4_CaseInsensitiveKeys ==
    GateRan =>
        /\ (KeysNamed(ev.cityQ) # {} => ev.gate # "UnknownTenant")
        /\ (ev.gate = "PASS" => ev.g.city \in KeysNamed(ev.cityQ))
        /\ (KeysNamed(ev.cityQ) = {} => ev.gate = "UnknownTenant")

\* C5: for a resolved tenant with a window, access enabled and the correct token,
\* the gate passes when start <= now <= end and fails with ServiceSuspended
\* at every other time
C5_WindowInclusive ==
    (GateRan /\ GateCfg.found /\ Enabled /\ CorrectToken /\ HasWindow(GateCfg)) =>
        LET st == DateValue(GateCfg.start)
            en == DateValue(GateCfg.end)
        IN  /\ ev.g.now \in Times
            /\ (st <= ev.g.now /\ ev.g.now <= en) => ev.gate = "PASS"
            /\ (ev.g.now < st \/ ev.g.now > en) =>
                    (ev.gate = "ServiceSuspended" /\ ev.status = 403)

\* C5 witness: a pass at the very end of the window
C5_Witness ==
    /\ GateRan /\ Enabled /\ CorrectToken /\ HasWindow(GateCfg)
    /\ ev.g.now = DateValue(GateCfg.end) /\ ev.gate = "PASS"

\* C6: for a resolved tenant without a window, access enabled and the correct
\* token, the gate passes at every time and hands on the tenant's configured key
\* and its persona name
C6_NoWindowAlwaysPasses ==
    (GateRan /\ GateCfg.found /\ Enabled /\ CorrectToken /\ ~HasWindow(GateCfg)) =>
        /\ ev.gate = "PASS"
        /\ ev.g.now \in Times
        /\ ev.g.city \in DOMAIN cities
        /\ cities[ev.g.city] = GateCfg
        /\ (GateCfg.planner \notin {Undefined, Empty} => ev.g.planner = GateCfg.planner)
        /\ (ev.called => respond.city = ev.g.city /\ respond.planner = ev.g.planner)

\* C6 witness: a pass at the last instant of the clock for a tenant with a start
\* and no end
C6_Witness ==
    /\ GateRan /\ GateCity = S_hw /\ ev.gate = "PASS" /\ ev.g.now = MaxTime
    /\ ev.g.planner = S_Eve

\* a toggle request that passed adminAuth and has not been answered
TogglePending == toggle.pc \in {"listening", "ended"}

\* C7 (as claimed): every toggle request with the correct credential is
\* eventually answered; it does not stay pending for ever
C7_ToggleCompletes == TogglePending ~> (toggle.pc = "idle")

\* the credential is the configured one, and one is configured
KeyIsAdminKey(key) == ADMIN_KEY # Empty /\ key = ADMIN_KEY

Desired(body) ==
    IF body.enabled \in {JsTrue, <<"f","a","l","s","e">>} THEN JsTrue ELSE JsFalse

\* C9: the flag is one value, always true or false; every gate check, for every
\* tenant, reads that value, which is the one the last completed toggle asked for
C9_OneBooleanFlag ==
    /\ runtimeAccessEnabled \in {JsTrue, JsFalse}
    /\ (GateRan /\ GateCfg.found) =>
            /\ ev.g.access = runtimeAccessEnabled
            /\ Disabled <=> (ev.gate = "ServiceSuspended" /\ ev.g.now = NoTime)
    /\ (ev.route = "toggle" /\ ev.status = 200) =>
            runtimeAccessEnabled = Desired(ev.body)

\* C9 witness: a toggle turns the flag off while a request that passed the gate
\* is waiting for the generation call
C9_Witness ==
    /\ ev.route = "toggle" /\ ev.status = 200 /\ ev.before = JsTrue
    /\ Disabled /\ respond.pc = "awaiting"

\* C10: a gate check changes neither the flag nor the tenant configuration; the
\* flag changes only when an authenticated toggle completes, and the tenant
\* configuration never changes
C10_GateReadOnly ==
    [][ /\ cities' = cities
        /\ (ev'.route = "respond") => runtimeAccessEnabled' = runtimeAccessEnabled
        /\ (runtimeAccessEnabled' # runtimeAccessEnabled) =>
                /\ toggle.pc = "listening" /\ toggle'.pc = "idle"
                /\ ev'.route = "toggle" /\ ev'.status = 200
                /\ KeyIsAdminKey(ev'.key) ]_vars

\* C10 witness: a gate check has refused a token and the flag is still on
C10_Witness ==
    /\ GateRan /\ ev.gate = "InvalidToken" /\ Enabled
    /\ ev.g.access = runtimeAccessEnabled

----------------------------------------------------------------------------
(* Properties of sliceByKeywords *)

TextLen(s) == Len(Or(s.text, Empty))

\* the text lengths of the first k ranked documents, added up
RECURSIVE PrefixLen(_, _)
PrefixLen(r, k) == IF k = 0 THEN 0 ELSE PrefixLen(r, k - 1) + TextLen(r[k])

RECURSIVE BlocksOf(_)
BlocksOf(r) == IF r = <<>> THEN <<>> ELSE block(Head(r)) \o BlocksOf(Tail(r))

\* the ranked documents whose predecessors' texts add up to less than the budget
AppendedCount ==
    Cardinality({k \in 1..Len(ev.scored) : PrefixLen(ev.scored, k - 1) < ev.maxChars})

\* C11: the context is the blocks of the ranked documents in order, up to and
\* including the first document at which the total of the text lengths
\* appended so far reaches maxChars: a document is appended, in full, exactly
\* when the texts appended before it total less than maxChars, and nothing
\* is appended behind the document that crosses the budget
C11_BudgetBeforeAppend ==
    SliceReturned =>
        /\ ev.out = BlocksOf(SubSeq(ev.scored, 1, AppendedCount))
        /\ \A k \in 1..Len(ev.scored) :
            PrefixLen(ev.scored, k - 1) >= ev.maxChars => k > AppendedCount

\* maxChars = 10 and two documents of length 20: the first block alone
C11_Witness ==
    /\ SliceReturned
    /\ ev.maxChars = 10
    /\ Len(ev.all) = 2
    /\ \A i \in 1..2 : Len(ev.all[i].text) = 20
    /\ ev.out = block(ev.scored[1])

\* the place of a ranked document in the enumeration of the corpus
CorpusPos(s) == CHOOSE i \in 1..Len(ev.all) : ev.all[i].file = s.file

\* C12: the ranking holds every document of the corpus once, by score
\* descending; documents of equal score keep the order the corpus enumerates
\* them in, and no score is negative. The order is a function of the scores
\* and the corpus order alone, so a repeated call ranks alike
C12_StableDescending ==
    SliceReturned =>
        /\ Len(ev.scored) = Len(ev.all)
        /\ \A i \in 1..Len(ev.all) :
            \E j \in 1..Len(ev.scored) :
                ev.scored[j].file = ev.all[i].file /\ ev.scored[j].text = ev.all[i].text
        /\ \A j \in 1..Len(ev.scored) : ev.scored[j].score >= 0
        /\ \A i, j \in 1..Len(ev.scored) :
            i < j =>
                \/ ev.scored[i].score > ev.scored[j].score
                \/ /\ ev.scored[i].score = ev.scored[j].score
                   /\ CorpusPos(ev.scored[i]) < CorpusPos(ev.scored[j])

\* the third document of the corpus ranks first, the first two tie behind it
C12_Witness ==
    /\ SliceReturned
    /\ Len(ev.scored) = 3
    /\ ev.scored[1].file = fileName(3)
    /\ ev.scored[2].file = fileName(1)
    /\ ev.scored[3].file = fileName(2)
    /\ ev.scored[2].score = ev.scored[3].score
    /\ ev.scored[2].score > 0

\* the distinct tokens of a question: its maximal runs of letters and digits,
\* in lower case
TokenSet(question) ==
    LET q == toLowerCase(Or(question, Empty))
    IN  {SubSeq(q, i, j) : <<i, j>> \in
            {p \in (1..Len(q)) \X (1..Len(q)) :
                /\ p[1] <= p[2]
                /\ \A k \in p[1]..p[2] : q[k] \in AlnumChars
                /\ (p[1] = 1 \/ q[p[1] - 1] \notin AlnumChars)
                /\ (p[2] = Len(q) \/ q[p[2] + 1] \notin AlnumChars)}}

\* the occurrences of t in s that no character of the set joins on either side
Occurrences(s, t, joining) ==
    Cardinality({i \in 1..(Len(s) - Len(t) + 1) :
        /\ SubSeq(s, i, i + Len(t) - 1) = t
        /\ ~(i > 1 /\ s[i - 1] \in joining)
        /\ ~(i + Len(t) <= Len(s) /\ s[i + Len(t)] \in joining)})

RECURSIVE SumOver(_, _)
SumOver(S, f) ==
    IF S = {} THEN 0
    ELSE LET x == CHOOSE x \in S : TRUE IN f[x] + SumOver(S \ {x}, f)

\* the score of a text when each distinct token of three characters or more
\* adds its occurrences that no character of the set joins, in quarters
ExpectedScore(text, question, joining) ==
    LET lower == toLowerCase(Or(text, Empty))
        long == {t \in TokenSet(question) : Len(t) >= 3}
    IN  Quarter * SumOver(long, [t \in long |-> Occurrences(lower, t, joining)])
        + hintScore(lower)

\* C13 as stated: each distinct query token of at least three characters adds
\* its case-insensitive occurrences that neither follow nor precede an
\* alphanumeric character; shorter tokens and repeats add nothing
C13_AlnumBoundaries ==
    SliceReturned =>
        \A j \in 1..Len(ev.scored) :
            ev.scored[j].score =
                ExpectedScore(ev.scored[j].text, ev.question, AlnumChars)

\* C13: each distinct query token of at least three characters adds its
\* case-insensitive occurrences that neither follow nor precede a letter, a
\* digit or an underscore; shorter tokens and repeats add nothing
C13_WordBoundaries ==
    SliceReturned =>
        \A j \in 1..Len(ev.scored) :
            ev.scored[j].score =
                ExpectedScore(ev.scored[j].text, ev.question, WordChars)

\* "Parking parking_lot" asked for "Parking parking is lot": one match of
\* parking, none of lot, and the hint parking
C13_Witness ==
    /\ SliceReturned
    /\ ev.question = <<"P","a","r","k","i","n","g"," ","p","a","r","k","i","n","g"," ","i","s"," ","l","o","t">>
    /\ Len(ev.scored) = 1
    /\ ev.scored[1].text = <<"P","a","r","k","i","n","g"," ","p","a","r","k","i","n","g","_","l","o","t">>
    /\ ev.scored[1].score = Quarter + 1

----------------------------------------------------------------------------
(* Properties of prettyCitations and loadIndex *)

CiteReturned == ev.route = "prettyCitations" /\ ev.stage \in {"return", "again"}

\* the text holds a bracketed document-file marker
HasMarker(s) == \E i \in 1..Len(s) : markerAt(s, i)

\* C14: a text without a marker is returned unchanged, the rewritten text
\* holds no marker, and rewriting the rewritten text changes nothing
C14_Idempotent ==
    /\ CiteReturned =>
        /\ ~HasMarker(ev.text) => ev.out = ev.text
        /\ ~HasMarker(ev.out)
    /\ (ev.route = "prettyCitations" /\ ev.stage = "again") => ev.again = ev.out

HasEntry(index, name) == \E k \in 1..Len(index) : index[k].file = name

EntryFor(index, name) == index[CHOOSE k \in 1..Len(index) : index[k].file = name]

\* 'Article <article> - <title>', 'Article - <title>' for an empty article, trimmed
Label(e) ==
    trim((IF Truthy(e.article) THEN <<"A","r","t","i","c","l","e"," ">> \o e.article
          ELSE <<"A","r","t","i","c","l","e">>)
         \o <<" ", EmDash, " ">> \o Or(e.title, Empty))

\* the text that stands for the marker [f] when the index is asked for the
\* names given, in their order
ExpectedCitation(index, f, names) ==
    IF \E n \in 1..Len(names) : HasEntry(index, names[n])
    THEN Label(EntryFor(index,
             names[CHOOSE n \in 1..Len(names) :
                     /\ HasEntry(index, names[n])
                     /\ \A m \in 1..(n - 1) : ~HasEntry(index, names[m])]))
    ELSE SubSeq(f, 1, Len(f) - Len(TxtSuffix))

\* where the markers of a text start: the leftmost of the matches that end at
\* the same bracket
MarkerStarts(s) ==
    {i \in 1..Len(s) :
        /\ markerAt(s, i)
        /\ ~\E h \in 1..(i - 1) : markerAt(s, h) /\ firstClose(s, h) = firstClose(s, i)}

MarkerName(s, i) == SubSeq(s, i + 1, firstClose(s, i) - 1)

\* the text with each marker replaced and everything else kept
RECURSIVE Rewritten(_, _, _, _)
Rewritten(index, s, i, trimmedToo) ==
    IF i > Len(s) THEN <<>>
    ELSE IF i \in MarkerStarts(s)
         THEN ExpectedCitation(index, MarkerName(s, i),
                               IF trimmedToo
                               THEN <<MarkerName(s, i), trim(MarkerName(s, i))>>
                               ELSE <<MarkerName(s, i)>>)
              \o Rewritten(index, s, firstClose(s, i) + 1, trimmedToo)
         ELSE <<s[i]>> \o Rewritten(index, s, i + 1, trimmedToo)

Qualifies(line) ==
    LET cols == splitOn(line, ",", <<>>, <<>>)
    IN  Len(cols) >= 3 /\ endsWith(toLowerCase(trim(cols[1])), TxtSuffix)

\* C18: the index has an entry for a line exactly when the line has at least
\* three comma-separated fields and its first field, trimmed, ends with the
\* suffix; the entry holds the trimmed fields, and an empty or missing side
\* file gives an empty index
C18_ThreeFieldsAndSuffix ==
    (ev.route = "loadIndex" /\ ev.stage \in {"return", "return1"}) =>
        LET lines == splitLines(ev.raw)
        IN  /\ \A l \in 1..Len(lines) :
                Qualifies(lines[l]) =>
                    HasEntry(ev.index, trim(splitOn(lines[l], ",", <<>>, <<>>)[1]))
            /\ \A k \in 1..Len(ev.index) :
                \E l \in 1..Len(lines) :
                    LET cols == splitOn(lines[l], ",", <<>>, <<>>)
                    IN  /\ Qualifies(lines[l])
                        /\ ev.index[k].file = trim(cols[1])
                        /\ ev.index[k].article = trim(cols[2])
                        /\ ev.index[k].title = trim(cols[3])
            /\ ev.raw = <<>> => ev.index = <<>>

----------------------------------------------------------------------------
(* Properties of the handlers behind the gate and of the toggle *)

\* a handler behind the gate ran, in either revision of /api/respond
HandlerRan == ev.route \in {"respond", "respond1"} /\ ev.stage = "handler"

\* C16: a request that passed the gate and whose assembled context is empty
\* (no corpus, or a corpus without documents) is answered with the fixed
\* no-grounding text, and the generation collaborator is not called for it
C16_EmptyContextFallsBack ==
    (HandlerRan /\ ev.gate = "PASS" /\ ev.context = "empty") =>
        /\ ev.status = 200
        /\ ev.text = "NoGrounding"
        /\ ~ev.called
        /\ respond.pc \notin {"awaiting", "awaiting1"}

\* C17: loading the corpus never fails the request: a directory that is not
\* there, cannot be listed, or is gone when it is listed gives the empty
\* mapping and no error answer, and only files with the suffix are loaded
C17_LoadNeverFails ==
    (HandlerRan /\ ev.loaded) =>
        /\ ~ev.threw
        /\ ev.status # 500
        /\ (ev.dir.listing # "ok" => ev.all = <<>> /\ ev.context = "empty")
        /\ \A k \in 1..Len(ev.all) : endsWith(toLowerCase(ev.all[k].file), TxtSuffix)

ToggleEnded == ev.route = "toggle" /\ ev.stage = "end"

\* C19: a toggle request that reached the handler with a body that is no JSON
\* is answered 400 (Bad JSON) and leaves the flag as it was; the flag changes
\* only in a handler run whose body parsed, and the value it gets is the
\* "enabled" field of the body as a boolean, false for a body without one
C19_BadJsonKeepsFlag ==
    /\ (ToggleEnded /\ ev.body.kind = "bad") =>
            ev.status = 400 /\ runtimeAccessEnabled = ev.before
    /\ (ev.route = "toggle" /\ runtimeAccessEnabled # ev.before) =>
            ToggleEnded /\ ev.status = 200 /\ ev.body.kind \in {"empty", "object"}
    /\ (ToggleEnded /\ ev.status = 200) =>
            /\ runtimeAccessEnabled =
                    IF ev.body.enabled \in {JsFalse, Undefined, Null, Zero, Empty}
                    THEN JsFalse ELSE JsTrue
            /\ (ev.body.enabled = Undefined => Disabled)

\* C19 witness: text that is no JSON reached the handler while access was on
C19_Witness ==
    /\ ToggleEnded /\ ev.body.kind = "bad" /\ ev.status = 400
    /\ ev.before = JsTrue /\ Enabled

\* C20: the flag is read at the gate and nowhere else: a request waits for the
\* generation call only if its gate check read the flag enabled, nothing but
\* the return of that call ends the wait, and the answer is the generation
\* result (200 with the text, 502 without, 500 on failure) whatever the flag
\* holds by then
C20_FlagReadAtGateOnly ==
    [][ /\ (respond.pc # "awaiting" /\ respond'.pc = "awaiting") =>
                /\ Enabled
                /\ ev'.g.access = JsTrue /\ ev'.gate = "PASS"
        /\ (respond.pc = "awaiting") =>
                \/ respond' = respond
                \/ /\ respond'.pc = "idle"
                   /\ ev'.route = "respond" /\ ev'.stage = "answer"
                   /\ ev'.gate = "PASS"
                   /\ ev'.status \in {200, 502, 500}
                   /\ (ev'.text = "text" <=> ev'.status = 200) ]_vars

\* C20 witness: the answer of a request that passed the gate goes out with the
\* rewritten text while access is switched off
C20_Witness ==
    /\ ev.route = "respond" /\ ev.stage = "answer" /\ ev.gate = "PASS"
    /\ ev.status = 200 /\ ev.answer # <<>>
    /\ Disabled

====
